---- MODULE Spec2Model ----
(***************************************************************************)
(* State-machine model of the EncryptedWaterAllocator contract             *)
(* (src/unnamed/part_000): the encrypted-request ledger, the correlation   *)
(* table between oracle callback ids and domain ids, and the per-zone      *)
(* homomorphic accumulator.                                                *)
(*                                                                         *)
(* Every public function is one action.  An action is a whole transaction: *)
(* a failing require / checkSignatures / abi.decode reverts it, so the     *)
(* storage is left as it was and only the record of the call (lastCall)    *)
(* tells what happened.                                                    *)
(*                                                                         *)
(* The FHE library and the decryption oracle are external.  Ciphertext     *)
(* handles are modelled by their plaintext mirror: a handle is a record    *)
(* [init, val] where init is FHE.isInitialized and val is the 32-bit       *)
(* plaintext the handle stands for.  The oracle hands out callback ids     *)
(* from a counter (Spec) or reuses ids (SpecOracleReuse), and the result   *)
(* of FHE.checkSignatures is an input of the callback (proofOk).  No       *)
(* function reads msg.sender: Spec sends every transaction from one        *)
(* account, SpecCallers from any of the accounts.  SpecViews adds the two  *)
(* view functions as steps.  SpecCollision starts from a hash function     *)
(* under which the hash of "main_zone" is a request id.  SpecFairOracle    *)
(* adds the oracle's obligation to deliver each callback id it issued.     *)
(* SpecFrontEnd is the submitRequest function of the web front end         *)
(* (src/frontend/web/src/App.tsx), run by concurrent browser sessions.     *)
(* block.timestamp is written into the request                             *)
(* and into the RequestSubmitted event and read by no function: the        *)
(* timestamp field and the event argument are left out.                    *)
(***************************************************************************)
EXTENDS Integers, Sequences, FiniteSets, TLC

(***************************************************************************)
(* Bounds of the model.                                                    *)
(***************************************************************************)
MaxRequests == 2       \* submissions explored
MaxCallbacks == 2      \* oracle decryption requests explored
MaxSubmits == 2        \* front end: submitRequest calls per session

(***************************************************************************)
(* uint32 values.  A uint32 is kept at its real width as two 16-bit limbs  *)
(* [hi, lo] standing for hi * 65536 + lo, so that 2^32 - 1 and the         *)
(* wrap-around of a 32-bit addition are exact.                             *)
(***************************************************************************)
Limb == 65536

MkU32(h, l) == [hi |-> h, lo |-> l]

Zero32 == MkU32(0, 0)

One32 == MkU32(0, 1)

Max32 == MkU32(Limb - 1, Limb - 1)

\* addition of two euint32 plaintexts: FHE.add is unchecked, it wraps at 2^32
Add32(a, b) ==
    LET s == a.lo + b.lo
    IN  MkU32((a.hi + b.hi + (s \div Limb)) % Limb, s % Limb)

\* the sum of two plaintexts as an integer: the high limb is not reduced
AddWide(a, b) ==
    LET s == a.lo + b.lo
    IN  MkU32(a.hi + b.hi + (s \div Limb), s % Limb)

(***************************************************************************)
(* Ciphertext handles (euint32) in plaintext-mirror terms.                 *)
(***************************************************************************)
\* the value of a storage slot never written: the zero handle
NoHandle == [init |-> FALSE, val |-> Zero32]

\* FHE.asEuint32(v): a fresh, initialized handle of plaintext v
asEuint32(v) == [init |-> TRUE, val |-> v]

\* euint32(v): the cast of a raw uint32 to a handle; the raw value 0 is the
\* zero handle, which FHE.isInitialized reports as uninitialized
WrapEuint32(v) == [init |-> v # Zero32, val |-> v]

isInitialized(h) == h.init

\* FHE.add(a, b): an uninitialized operand counts as 0, the result is a
\* fresh initialized handle
FHEadd(a, b) == asEuint32(Add32(a.val, b.val))

(***************************************************************************)
(* Inputs.                                                                 *)
(***************************************************************************)
\* zone names callers may pass; only "main_zone" is ever contributed to
Zones == {"main_zone", "east_zone"}

\* uint256(keccak256(abi.encodePacked(zone))) is a fixed uint256 per name,
\* in the same space as the request ids.  The model keeps the hash function
\* as the state component keccak, fixed by the initial state: far above the
\* explored request ids (HashMainZone, HashEastZone), or, in SpecCollision,
\* with the hash of "main_zone" equal to a request id that submissions
\* reach (CollidingHash).
HashMainZone == 1000001

HashEastZone == 1000002

CollidingHash == 2

\* request ids callers may pass: 0 and the ids that can be issued (each of
\* them is a never-issued id until its submission)
ReqIdInputs == 0..MaxRequests

\* keys of the uint256-keyed mappings that the explored calls can touch
DomainIds == ReqIdInputs \cup {HashMainZone, HashEastZone, CollidingHash}

\* callback ids: the ones the oracle can issue (0..MaxCallbacks-1) and one
\* that it never issues
CallbackIds == 0..MaxCallbacks

\* pairs (encryptedDemand, encryptedPriority) a submitter may pass: handles
\* are opaque, the contract stores them and never inspects them
SubmitInputs == {<<asEuint32(One32), asEuint32(MkU32(0, 2))>>}

\* cleartext words delivered by callbacks
DemandInputs == {One32, Max32}

PriorityInputs == {MkU32(0, 2)}

\* abi-encoded cleartexts, a sequence of 32-byte words, each a uint32:
\* (demand, priority) pairs and one that is a word short
CleartextInputs ==
    {<<d, p>> : d \in DemandInputs, p \in PriorityInputs} \cup {<<One32>>}

\* cleartexts of the zone flow: one word, or none
ZoneCleartextInputs == {<<Max32>>, <<>>}

\* accounts that send transactions: a submitter and the oracle's relayer
Farmer == "farmer"

Oracle == "oracle"

Callers == {Farmer, Oracle}

\* no account: the submitter of an id that was never issued
Nobody == "nobody"

(***************************************************************************)
(* Error names (revert reasons).                                           *)
(***************************************************************************)
NoError == "none"

AlreadyProcessed == "Already decrypted"

InvalidRequest == "Invalid request"

ZoneNotFound == "Zone not found"

\* revert of FHE.checkSignatures
InvalidProof == "InvalidProof"

\* revert of abi.decode on cleartexts that are too short
DecodeError == "DecodeError"

(***************************************************************************)
(* State.                                                                  *)
(***************************************************************************)
VARIABLES
    requestCount,        \* uint256 public requestCount
    encryptedRequests,   \* mapping(uint256 => EncryptedRequest)
    decryptedRequests,   \* mapping(uint256 => DecryptedRequest)
    encryptedAllocation, \* mapping(string => euint32)
    zoneList,            \* string[] zoneList
    requestToId,         \* mapping(uint256 => uint256): callback id -> domain id
    oracleCounter,       \* number of callback ids the oracle has issued
    lastCall,            \* the last call and its outcome
    msgSender,           \* msg.sender of the last call
    keccak,              \* the hash of each zone name (never changes)
    issued,              \* history: ids of the RequestSubmitted events, in order
    mergeCount,          \* history: per domain id, the number of calls of
                         \* updateZoneAllocation made on its behalf
    mirrorTotal,         \* history: the plaintext sum of the demands merged
                         \* into "main_zone", as an unbounded integer
    submitter,           \* history: per request id, the msg.sender of the
                         \* submission that issued it
    requested,           \* history: ids of the DecryptionRequested events
    delivered,           \* history: callback ids the oracle has delivered to
                         \* decryptRequest with a proof that is accepted
    chainData,           \* front end: the key-value data behind getData /
                         \* setData: the "request_keys" list and the ids
                         \* that have a "request_<id>" entry
    session              \* front end: per browser session, where its
                         \* submitRequest call stands, the requestId and
                         \* the keys it read

storage == <<requestCount, encryptedRequests, decryptedRequests,
             encryptedAllocation, zoneList, requestToId>>

history == <<issued, mergeCount, mirrorTotal>>

vars == <<requestCount, encryptedRequests, decryptedRequests,
          encryptedAllocation, zoneList, requestToId, oracleCounter,
          lastCall, msgSender, keccak, issued, mergeCount, mirrorTotal,
          submitter, requested, delivered, chainData, session>>

\* state of the allocator contract and its histories
allocator == <<requestCount, encryptedRequests, decryptedRequests,
               encryptedAllocation, zoneList, requestToId, oracleCounter,
               lastCall, msgSender, keccak, issued, mergeCount, mirrorTotal,
               submitter, requested, delivered>>

\* state of the front end and of the data it stores
frontEnd == <<chainData, session>>

\* browser sessions running App.tsx against the same data
Sessions == {"a", "b"}

\* a session outside submitRequest
Idle == [pc |-> "idle", done |-> 0, requestId |-> <<>>, keys |-> <<>>]

\* uint256(keccak256(abi.encodePacked(zone)))
ZoneHashOf(zone) == keccak[zone]

\* the hashes far above every explored request id, injective on the names
DistinctHashes == [z \in Zones |->
                     IF z = "main_zone" THEN HashMainZone ELSE HashEastZone]

\* the hash of "main_zone" is a request id
CollidingHashes == [DistinctHashes EXCEPT !["main_zone"] = CollidingHash]

\* default value of an EncryptedRequest slot
NoRequest ==
    [id |-> 0, encryptedDemand |-> NoHandle, encryptedPriority |-> NoHandle]

\* default value of a DecryptedRequest slot
NoResult == [demand |-> Zero32, priority |-> Zero32, processed |-> FALSE]

\* record of a call: its name, its arguments (defaults for those it does not
\* take; the cleartexts only of a call that decoded them), the revert reason
\* or NoError, the events it emitted
Call(op, reqId, decReqId, cleartexts, proofOk, zone, err, events) ==
    [op |-> op, reqId |-> reqId, decReqId |-> decReqId,
     cleartexts |-> cleartexts, proofOk |-> proofOk, zone |-> zone,
     err |-> err, events |-> events]

\* the state after construction, hashes being the hash function
InitWith(hashes) ==
    /\ keccak = hashes
    /\ requested = {}
    /\ delivered = {}
    /\ chainData = [keys |-> <<>>, requests |-> {}]
    /\ session = [c \in Sessions |-> Idle]
    /\ requestCount = 0
    /\ encryptedRequests = [i \in DomainIds |-> NoRequest]
    /\ decryptedRequests = [i \in DomainIds |-> NoResult]
    /\ encryptedAllocation = [z \in Zones |-> NoHandle]
    /\ zoneList = <<>>
    /\ requestToId = [c \in CallbackIds |-> 0]
    /\ oracleCounter = 0
    /\ lastCall = Call("constructor", 0, 0, <<>>, FALSE, "", NoError, <<>>)
    /\ issued = <<>>
    /\ mergeCount = [i \in DomainIds |-> 0]
    /\ mirrorTotal = Zero32
    /\ msgSender = Farmer
    /\ submitter = [i \in DomainIds |-> Nobody]

Init == InitWith(DistinctHashes)

(***************************************************************************)
(* A reverted transaction or a view call: storage, oracle and histories    *)
(* are as before.                                                          *)
(***************************************************************************)
Revert(call) ==
    /\ lastCall' = call
    /\ UNCHANGED <<storage, oracleCounter, history>>

(***************************************************************************)
(* submitEncryptedRequest(encryptedDemand, encryptedPriority)              *)
(***************************************************************************)
\* the id taken before the increment instead of after it
NewIdBeforeIncrement(count) == count

\* requestCount += 1; newId = requestCount
NewId(count) == count + 1

\* a submission clearing only the processed flag of the new id's result
SubmitEncryptedRequestKeepsCleartexts(encryptedDemand, encryptedPriority) ==
    /\ requestCount < MaxRequests
    /\ LET newId == NewId(requestCount)
       IN  /\ requestCount' = newId
           /\ encryptedRequests' =
                [encryptedRequests EXCEPT ![newId] =
                    [id |-> newId, encryptedDemand |-> encryptedDemand,
                     encryptedPriority |-> encryptedPriority]]
           /\ decryptedRequests' =
                [decryptedRequests EXCEPT ![newId].processed = FALSE]
           /\ issued' = Append(issued, newId)
           /\ lastCall' =
                Call("submitEncryptedRequest", newId, 0, <<>>, FALSE, "",
                     NoError,
                     << <<"RequestSubmitted", newId>> >>)
    /\ UNCHANGED <<encryptedAllocation, zoneList, requestToId, oracleCounter,
                   mergeCount, mirrorTotal>>

\* a submission that also cancels the outstanding callbacks
SubmitEncryptedRequestCancelsCallbacks(encryptedDemand, encryptedPriority) ==
    /\ requestCount < MaxRequests
    /\ LET newId == NewId(requestCount)
       IN  /\ requestCount' = newId
           /\ encryptedRequests' =
                [encryptedRequests EXCEPT ![newId] =
                    [id |-> newId, encryptedDemand |-> encryptedDemand,
                     encryptedPriority |-> encryptedPriority]]
           /\ decryptedRequests' =
                [decryptedRequests EXCEPT ![newId] = NoResult]
           /\ requestToId' = [c \in CallbackIds |-> 0]
           /\ issued' = Append(issued, newId)
           /\ lastCall' =
                Call("submitEncryptedRequest", newId, 0, <<>>, FALSE, "",
                     NoError,
                     << <<"RequestSubmitted", newId>> >>)
    /\ UNCHANGED <<encryptedAllocation, zoneList, oracleCounter,
                   mergeCount, mirrorTotal>>

SubmitEncryptedRequest(encryptedDemand, encryptedPriority) ==
    /\ requestCount < MaxRequests
    /\ LET newId == NewId(requestCount)
       IN  /\ requestCount' = newId
           /\ encryptedRequests' =
                [encryptedRequests EXCEPT ![newId] =
                    [id |-> newId, encryptedDemand |-> encryptedDemand,
                     encryptedPriority |-> encryptedPriority]]
           /\ decryptedRequests' =
                [decryptedRequests EXCEPT ![newId] = NoResult]
           /\ issued' = Append(issued, newId)
           /\ lastCall' =
                Call("submitEncryptedRequest", newId, 0, <<>>, FALSE, "",
                     NoError,
                     << <<"RequestSubmitted", newId>> >>)
    /\ UNCHANGED <<encryptedAllocation, zoneList, requestToId, oracleCounter,
                   mergeCount, mirrorTotal>>

(***************************************************************************)
(* requestDecryption(reqId): decReqId is the id FHE.requestDecryption      *)
(* returns.                                                                *)
(***************************************************************************)
\* modifier onlyRequester(reqId) { _; }: it enforces no condition
onlyRequester(reqId) == TRUE

\* the function without its require on the processed flag
RequestDecryptionErrNoProcessedCheck(reqId) == NoError

RequestDecryptionErr(reqId) ==
    IF decryptedRequests[reqId].processed THEN AlreadyProcessed
    ELSE NoError

RequestDecryption(reqId, decReqId) ==
    LET err == RequestDecryptionErr(reqId)
    IN  IF err # NoError
        THEN Revert(Call("requestDecryption", reqId, 0, <<>>, FALSE, "",
                         err, <<>>))
        ELSE /\ onlyRequester(reqId)
             /\ oracleCounter < MaxCallbacks
             /\ oracleCounter' = oracleCounter + 1
             /\ requestToId' = [requestToId EXCEPT ![decReqId] = reqId]
             /\ lastCall' =
                  Call("requestDecryption", reqId, decReqId, <<>>, FALSE, "",
                       NoError, << <<"DecryptionRequested", reqId>> >>)
             /\ UNCHANGED <<requestCount, encryptedRequests,
                            decryptedRequests, encryptedAllocation, zoneList,
                            history>>

(***************************************************************************)
(* updateZoneAllocation(zone, additional), as a function of the            *)
(* accumulator map and the registry: the new map, the new registry and the *)
(* event emitted.                                                          *)
(***************************************************************************)
\* the zone pushed to the registry on every contribution
updateZoneAllocationAlwaysPush(alloc, zl, zone, additional) ==
    LET fresh == ~isInitialized(alloc[zone])
        alloc1 == IF fresh THEN [alloc EXCEPT ![zone] = asEuint32(Zero32)]
                  ELSE alloc
        zl1 == Append(zl, zone)
        alloc2 == [alloc1 EXCEPT ![zone] = FHEadd(alloc1[zone], additional)]
    IN  [alloc |-> alloc2, zoneList |-> zl1,
         events |-> << <<"AllocationUpdated", zone, alloc2[zone]>> >>]

updateZoneAllocation(alloc, zl, zone, additional) ==
    LET fresh == ~isInitialized(alloc[zone])
        alloc1 == IF fresh THEN [alloc EXCEPT ![zone] = asEuint32(Zero32)]
                  ELSE alloc
        zl1 == IF fresh THEN Append(zl, zone) ELSE zl
        alloc2 == [alloc1 EXCEPT ![zone] = FHEadd(alloc1[zone], additional)]
    IN  [alloc |-> alloc2, zoneList |-> zl1,
         events |-> << <<"AllocationUpdated", zone, alloc2[zone]>> >>]

(***************************************************************************)
(* decryptRequest(decReqId, cleartexts, proof): proofOk is the outcome of  *)
(* FHE.checkSignatures(decReqId, cleartexts, proof).                       *)
(***************************************************************************)
\* the handler without its check of the processed flag
DecryptRequestErrNoProcessedCheck(decReqId, cleartexts, proofOk) ==
    LET reqId == requestToId[decReqId]
    IN  IF reqId = 0 THEN InvalidRequest
        ELSE IF ~proofOk THEN InvalidProof
        ELSE IF Len(cleartexts) < 2 THEN DecodeError
        ELSE NoError

\* the handler without its check of the correlation entry
DecryptRequestErrNoLookupCheck(decReqId, cleartexts, proofOk) ==
    LET reqId == requestToId[decReqId]
    IN  IF decryptedRequests[reqId].processed THEN AlreadyProcessed
        ELSE IF ~proofOk THEN InvalidProof
        ELSE IF Len(cleartexts) < 2 THEN DecodeError
        ELSE NoError

\* the handler ignoring the outcome of the proof verification
DecryptRequestErrNoProofCheck(decReqId, cleartexts, proofOk) ==
    LET reqId == requestToId[decReqId]
    IN  IF reqId = 0 THEN InvalidRequest
        ELSE IF decryptedRequests[reqId].processed THEN AlreadyProcessed
        ELSE IF Len(cleartexts) < 2 THEN DecodeError
        ELSE NoError

\* the handler refusing a domain id that no DecryptionRequested event named
DecryptRequestErrRequestFlowOnly(decReqId, cleartexts, proofOk) ==
    LET reqId == requestToId[decReqId]
    IN  IF reqId = 0 \/ reqId \notin requested THEN InvalidRequest
        ELSE IF decryptedRequests[reqId].processed THEN AlreadyProcessed
        ELSE IF ~proofOk THEN InvalidProof
        ELSE IF Len(cleartexts) < 2 THEN DecodeError
        ELSE NoError

\* the handler taking a callback id above the issued ones as unknown,
\* instead of a correlation entry of 0
DecryptRequestErrZeroIsAnId(decReqId, cleartexts, proofOk) ==
    LET reqId == requestToId[decReqId]
    IN  IF decReqId >= oracleCounter THEN InvalidRequest
        ELSE IF decryptedRequests[reqId].processed THEN AlreadyProcessed
        ELSE IF ~proofOk THEN InvalidProof
        ELSE IF Len(cleartexts) < 2 THEN DecodeError
        ELSE NoError

\* the handler verifying the proof before its two requires
DecryptRequestErrProofFirst(decReqId, cleartexts, proofOk) ==
    LET reqId == requestToId[decReqId]
    IN  IF ~proofOk THEN InvalidProof
        ELSE IF reqId = 0 THEN InvalidRequest
        ELSE IF decryptedRequests[reqId].processed THEN AlreadyProcessed
        ELSE IF Len(cleartexts) < 2 THEN DecodeError
        ELSE NoError

DecryptRequestErr(decReqId, cleartexts, proofOk) ==
    LET reqId == requestToId[decReqId]
    IN  IF reqId = 0 THEN InvalidRequest
        ELSE IF decryptedRequests[reqId].processed THEN AlreadyProcessed
        ELSE IF ~proofOk THEN InvalidProof
        ELSE IF Len(cleartexts) < 2 THEN DecodeError
        ELSE NoError

DecryptRequest(decReqId, cleartexts, proofOk) ==
    LET reqId == requestToId[decReqId]
        err == DecryptRequestErr(decReqId, cleartexts, proofOk)
    IN  IF err # NoError
        THEN Revert(Call("decryptRequest", reqId, decReqId, <<>>,
                         proofOk, "", err, <<>>))
        ELSE LET demand == cleartexts[1]
                 priority == cleartexts[2]
                 upd == updateZoneAllocation(encryptedAllocation, zoneList,
                                             "main_zone", WrapEuint32(demand))
             IN  /\ decryptedRequests' =
                      [decryptedRequests EXCEPT ![reqId] =
                          [demand |-> demand, priority |-> priority,
                           processed |-> TRUE]]
                 /\ encryptedAllocation' = upd.alloc
                 /\ zoneList' = upd.zoneList
                 /\ mergeCount' =
                      [mergeCount EXCEPT ![reqId] = mergeCount[reqId] + 1]
                 /\ mirrorTotal' = AddWide(mirrorTotal, demand)
                 /\ lastCall' =
                      Call("decryptRequest", reqId, decReqId, cleartexts,
                           proofOk, "", NoError,
                           upd.events \o << <<"RequestDecrypted", reqId>> >>)
                 /\ UNCHANGED <<requestCount, encryptedRequests, requestToId,
                                oracleCounter, issued>>

(***************************************************************************)
(* View functions: they read the storage and change nothing.               *)
(***************************************************************************)
\* the lookup reading the slot before the one asked for
getDecryptedRequestOffByOne(reqId) ==
    LET r == decryptedRequests[IF reqId > 0 THEN reqId - 1 ELSE reqId]
    IN  <<r.demand, r.priority, r.processed>>

getDecryptedRequest(reqId) ==
    LET r == decryptedRequests[reqId]
    IN  <<r.demand, r.priority, r.processed>>

getEncryptedAllocation(zone) == encryptedAllocation[zone]

\* neither view has a require: a call returns the slot, written or not
GetDecryptedRequest(reqId) ==
    Revert(Call("getDecryptedRequest", reqId, 0, <<>>, FALSE, "", NoError,
                <<>>))

GetEncryptedAllocation(zone) ==
    Revert(Call("getEncryptedAllocation", 0, 0, <<>>, FALSE, zone, NoError,
                <<>>))

(***************************************************************************)
(* requestAllocationDecryption(zone)                                       *)
(***************************************************************************)
\* the function without its require on the zone
RequestAllocationDecryptionErrNoCheck(zone) == NoError

RequestAllocationDecryptionErr(zone) ==
    IF ~isInitialized(encryptedAllocation[zone]) THEN ZoneNotFound
    ELSE NoError

RequestAllocationDecryption(zone, decReqId) ==
    LET err == RequestAllocationDecryptionErr(zone)
    IN  IF err # NoError
        THEN Revert(Call("requestAllocationDecryption", 0, 0, <<>>, FALSE,
                         zone, err, <<>>))
        ELSE /\ oracleCounter < MaxCallbacks
             /\ oracleCounter' = oracleCounter + 1
             /\ requestToId' =
                  [requestToId EXCEPT ![decReqId] = ZoneHashOf(zone)]
             /\ lastCall' =
                  Call("requestAllocationDecryption", 0, decReqId, <<>>,
                       FALSE, zone, NoError, <<>>)
             /\ UNCHANGED <<requestCount, encryptedRequests,
                            decryptedRequests, encryptedAllocation, zoneList,
                            history>>

(***************************************************************************)
(* getZoneFromHash(hash): linear scan of zoneList; "" stands for the       *)
(* revert "Zone not found" (no zone in the list has the empty name).       *)
(***************************************************************************)
\* the loop stopping one entry early (i < zoneList.length - 1)
RECURSIVE ScanZoneListStopsEarly(_, _, _)
ScanZoneListStopsEarly(zl, hash, i) ==
    IF i >= Len(zl) THEN ""
    ELSE IF ZoneHashOf(zl[i]) = hash THEN zl[i]
    ELSE ScanZoneListStopsEarly(zl, hash, i + 1)

RECURSIVE ScanZoneList(_, _, _)
ScanZoneList(zl, hash, i) ==
    IF i > Len(zl) THEN ""
    ELSE IF ZoneHashOf(zl[i]) = hash THEN zl[i]
    ELSE ScanZoneList(zl, hash, i + 1)

getZoneFromHash(hash) == ScanZoneList(zoneList, hash, 1)

(***************************************************************************)
(* decryptAllocation(reqId, cleartexts, proof): the decoded value is       *)
(* dropped, nothing is written.                                            *)
(***************************************************************************)
\* the handler without the reverse lookup of the zone
DecryptAllocationErrNoLookup(decReqId, cleartexts, proofOk) ==
    IF ~proofOk THEN InvalidProof
    ELSE IF Len(cleartexts) < 1 THEN DecodeError
    ELSE NoError

DecryptAllocationErr(decReqId, cleartexts, proofOk) ==
    LET zoneHash == requestToId[decReqId]
    IN  IF getZoneFromHash(zoneHash) = "" THEN ZoneNotFound
        ELSE IF ~proofOk THEN InvalidProof
        ELSE IF Len(cleartexts) < 1 THEN DecodeError
        ELSE NoError

\* the handler adding the decoded value to the zone's total
DecryptAllocationStoresValue(decReqId, cleartexts, proofOk) ==
    LET zoneHash == requestToId[decReqId]
        zone == getZoneFromHash(zoneHash)
        err == DecryptAllocationErr(decReqId, cleartexts, proofOk)
    IN  IF err # NoError
        THEN Revert(Call("decryptAllocation", 0, decReqId, <<>>, proofOk,
                         zone, err, <<>>))
        ELSE /\ encryptedAllocation' =
                  [encryptedAllocation EXCEPT ![zone] =
                      FHEadd(encryptedAllocation[zone],
                             WrapEuint32(cleartexts[1]))]
             /\ lastCall' = Call("decryptAllocation", 0, decReqId, cleartexts,
                                 proofOk, zone, NoError, <<>>)
             /\ UNCHANGED <<requestCount, encryptedRequests,
                            decryptedRequests, zoneList, requestToId,
                            oracleCounter, history>>

DecryptAllocation(decReqId, cleartexts, proofOk) ==
    LET zoneHash == requestToId[decReqId]
        err == DecryptAllocationErr(decReqId, cleartexts, proofOk)
    IN  Revert(Call("decryptAllocation", 0, decReqId,
                    IF err = NoError THEN cleartexts ELSE <<>>, proofOk,
                    getZoneFromHash(zoneHash), err, <<>>))

\* the call is sent by one of senders; the submitter of a new id is
\* remembered
SentBy(senders) ==
    /\ msgSender' \in senders
    /\ submitter' =
          IF requestCount' # requestCount
          THEN [submitter EXCEPT ![requestCount'] = msgSender']
          ELSE submitter

\* the rest of a transaction's step: its sender, the DecryptionRequested
\* event it may have emitted, the delivery it may have been (a callback for
\* a registered id with an accepted proof and cleartexts that decode, which
\* resolves the request or finds it processed); the hash function is what
\* it was
Tx(senders) ==
    /\ SentBy(senders)
    /\ requested' =
          IF lastCall'.op = "requestDecryption" /\ lastCall'.err = NoError
          THEN requested \cup {lastCall'.reqId}
          ELSE requested
    /\ delivered' =
          IF /\ lastCall'.op = "decryptRequest"
             /\ lastCall'.proofOk
             /\ lastCall'.err = NoError
          THEN delivered \cup {lastCall'.decReqId}
          ELSE delivered
    /\ UNCHANGED <<keccak, frontEnd>>

\* the transactions, the callback id being the one the oracle returns:
\* ids(n) is the set of ids it may return for its n-th request
Calls(ids(_), senders) ==
    \/ \E in \in SubmitInputs :
          SubmitEncryptedRequest(in[1], in[2]) /\ Tx(senders)
    \/ \E r \in ReqIdInputs, c \in ids(oracleCounter) :
          RequestDecryption(r, c) /\ Tx(senders)
    \/ \E c \in CallbackIds, t \in CleartextInputs, ok \in BOOLEAN :
          DecryptRequest(c, t, ok) /\ Tx(senders)
    \/ \E z \in Zones, c \in ids(oracleCounter) :
          RequestAllocationDecryption(z, c) /\ Tx(senders)
    \/ \E c \in CallbackIds, t \in ZoneCleartextInputs, ok \in BOOLEAN :
          DecryptAllocation(c, t, ok) /\ Tx(senders)

\* the calls of the view functions
Views(senders) ==
    \/ \E r \in ReqIdInputs : GetDecryptedRequest(r) /\ Tx(senders)
    \/ \E z \in Zones : GetEncryptedAllocation(z) /\ Tx(senders)

\* the oracle's request counter is the id it returns
CounterIds(n) == {n}

\* an oracle that may return any id again
AnyIds(n) == 0..(MaxCallbacks - 1)

\* the transactions, sent by one account, callback ids from a counter
Next == Calls(CounterIds, {Farmer})

Spec == Init /\ [][Next]_vars

\* the same with an oracle that reuses callback ids
NextOracleReuse == Calls(AnyIds, {Farmer})

SpecOracleReuse == Init /\ [][NextOracleReuse]_vars

\* the same with transactions sent by any account
NextCallers == Calls(CounterIds, Callers)

SpecCallers == Init /\ [][NextCallers]_vars

\* the transactions and the view calls
NextViews == Calls(CounterIds, {Farmer}) \/ Views({Farmer})

SpecViews == Init /\ [][NextViews]_vars

\* the cleartexts the oracle signs for a request: its two decrypted words
WellFormedCleartexts == {t \in CleartextInputs : Len(t) = 2}

\* the oracle delivers callback id c, issued for requestDecryption and not
\* yet delivered, to decryptRequest, with a proof that is accepted
Deliver(c) ==
    /\ c < oracleCounter
    /\ c \notin delivered
    /\ requestToId[c] \in requested
    /\ \E t \in WellFormedCleartexts :
          DecryptRequest(c, t, TRUE) /\ Tx({Farmer})

\* the transactions, with an oracle that eventually delivers every callback
\* id it issued; the callers are under no obligation
FairOracle == \A c \in 0..(MaxCallbacks - 1) : WF_vars(Deliver(c))

SpecFairOracle == Init /\ [][Next]_vars /\ FairOracle

(***************************************************************************)
(* Front end (src/frontend/web/src/App.tsx).  submitRequest awaits three   *)
(* calls in turn: setData("request_<id>"), getData("request_keys"),        *)
(* setData("request_keys"); each is one step, and the steps of the         *)
(* sessions interleave.  Every call completes.                             *)
(***************************************************************************)
\* requestId = `${Date.now()}-${random}`: unique per call
NewRequestId(c) == <<c, session[c].done + 1>>

\* await contract.setData(`request_${requestId}`, ...)
StoreRequest(c) ==
    /\ session[c].pc = "idle"
    /\ session[c].done < MaxSubmits
    /\ chainData' = [chainData EXCEPT
                        !.requests = @ \cup {NewRequestId(c)}]
    /\ session' = [session EXCEPT ![c].pc = "stored",
                                  ![c].requestId = NewRequestId(c)]
    /\ UNCHANGED allocator

\* keysBytes = await contract.getData("request_keys"); keys = JSON.parse(...)
ReadKeys(c) ==
    /\ session[c].pc = "stored"
    /\ session' = [session EXCEPT ![c].pc = "read",
                                  ![c].keys = chainData.keys]
    /\ UNCHANGED <<allocator, chainData>>

\* keys.push(requestId); await contract.setData("request_keys", ...)
WriteKeys(c) ==
    /\ session[c].pc = "read"
    /\ chainData' = [chainData EXCEPT
                        !.keys = Append(session[c].keys,
                                        session[c].requestId)]
    /\ session' = [session EXCEPT ![c].pc = "idle",
                                  ![c].done = @ + 1,
                                  ![c].requestId = <<>>,
                                  ![c].keys = <<>>]
    /\ UNCHANGED allocator

\* loadRequests: the ids of "request_keys" whose "request_<id>" entry is
\* not empty
loadRequests ==
    {chainData.keys[n] : n \in 1..Len(chainData.keys)} \cap chainData.requests

NextFrontEnd ==
    \/ \E c \in Sessions : StoreRequest(c)
    \/ \E c \in Sessions : ReadKeys(c)
    \/ \E c \in Sessions : WriteKeys(c)

SpecFrontEnd == Init /\ [][NextFrontEnd]_vars

\* the transactions when the hash of "main_zone" is a request id
InitCollision == InitWith(CollidingHashes)

SpecCollision == InitCollision /\ [][Next]_vars

(***************************************************************************)
(* Helpers of the properties.                                              *)
(***************************************************************************)
\* callback ids registered so far: the oracle issues 0, 1, 2, ... in order
Registered == 0..(oracleCounter - 1)

\* the step is a call of op (every call leaves its record in lastCall)
IsCall(op) == lastCall'.op = op

Succeeded == lastCall'.err = NoError

\* ledger, correlation table, accumulator and registry are left as they were
NoMutation == UNCHANGED <<storage, oracleCounter, history>>

MainTotal == encryptedAllocation["main_zone"].val

(***************************************************************************)
(* C1: the n-th successful submission is assigned id n (1, 2, 3, ... in    *)
(* submission order, no gaps, no repeats) and requestCount is the number   *)
(* of submissions so far.                                                  *)
(***************************************************************************)
C1_SequentialIds ==
    /\ \A n \in 1..Len(issued) : issued[n] = n
    /\ requestCount = Len(issued)

C1_Witness ==
    /\ Len(issued) >= 2
    /\ oracleCounter >= 1
    /\ lastCall.op = "submitEncryptedRequest"

(***************************************************************************)
(* C2: a step of decryptRequest that succeeds for request id leaves        *)
(* getDecryptedRequest(id) = (demand, priority, true) for the decoded      *)
(* values, and the plaintext of the "main_zone" total grows by exactly     *)
(* demand, as integers.                                                    *)
(***************************************************************************)
C2_ResolveWritesAndAddsDemand ==
    [][(IsCall("decryptRequest") /\ Succeeded) =>
          /\ \A i \in DomainIds :
                i = lastCall'.reqId =>
                   getDecryptedRequest(i)' =
                      <<lastCall'.cleartexts[1], lastCall'.cleartexts[2], TRUE>>
          /\ MainTotal' = AddWide(MainTotal, lastCall'.cleartexts[1])]_vars

(***************************************************************************)
(* C3: resolving a request that is already processed, by the same callback *)
(* id or by another one registered for it, fails with AlreadyProcessed and *)
(* leaves ledger and accumulator as the first resolution left them.        *)
(***************************************************************************)
C3_ReplayRejected ==
    [][(/\ IsCall("decryptRequest")
        /\ requestToId[lastCall'.decReqId] # 0
        /\ decryptedRequests[requestToId[lastCall'.decReqId]].processed) =>
          /\ lastCall'.err = AlreadyProcessed
          /\ NoMutation]_vars

C3_Witness ==
    /\ lastCall.op = "decryptRequest"
    /\ lastCall.err = AlreadyProcessed
    /\ lastCall.proofOk
    /\ \E c \in Registered :
          c # lastCall.decReqId /\ requestToId[c] = lastCall.reqId

(***************************************************************************)
(* C4: once processed, a result never changes again: the flag is never     *)
(* reset to false and the stored demand and priority stay.                 *)
(***************************************************************************)
C4_ProcessedIsFinal ==
    [][\A i \in DomainIds :
          decryptedRequests[i].processed =>
             decryptedRequests'[i] = decryptedRequests[i]]_vars

(***************************************************************************)
(* C5: no two callback ids are outstanding for the same submitted,         *)
(* unprocessed request.                                                    *)
(***************************************************************************)
C5_OneOutstandingCallback ==
    \A c1 \in Registered, c2 \in Registered :
       (/\ requestToId[c1] = requestToId[c2]
        /\ requestToId[c1] \in 1..requestCount
        /\ ~decryptedRequests[requestToId[c1]].processed) => c1 = c2

(***************************************************************************)
(* C6: decryptRequest with a callback id that was never registered fails   *)
(* with InvalidRequest, whatever cleartexts and proof, and changes         *)
(* nothing.                                                                *)
(***************************************************************************)
C6_UnregisteredCallbackRejected ==
    [][(IsCall("decryptRequest") /\ lastCall'.decReqId \notin Registered) =>
          /\ lastCall'.err = InvalidRequest
          /\ NoMutation]_vars

C6_Witness ==
    /\ lastCall.op = "decryptRequest"
    /\ lastCall.decReqId \notin Registered
    /\ lastCall.proofOk
    /\ lastCall.err = InvalidRequest
    /\ \E c \in Registered : ~decryptedRequests[requestToId[c]].processed

(***************************************************************************)
(* C7: a callback for a registered, unprocessed request whose proof is     *)
(* rejected fails with InvalidProof and changes nothing: the result still  *)
(* reads (0, 0, false), accumulator and registry are as before, and the    *)
(* same callback id with an accepted proof would still resolve.            *)
(***************************************************************************)
C7_RejectedProofNoMutation ==
    [][(/\ IsCall("decryptRequest")
        /\ requestToId[lastCall'.decReqId] # 0
        /\ ~decryptedRequests[requestToId[lastCall'.decReqId]].processed
        /\ ~lastCall'.proofOk) =>
          /\ lastCall'.err = InvalidProof
          /\ NoMutation
          /\ \A i \in DomainIds :
                i = lastCall'.reqId =>
                   getDecryptedRequest(i)' = <<Zero32, Zero32, FALSE>>
          /\ \A c \in CallbackIds, d \in DemandInputs, p \in PriorityInputs :
                c = lastCall'.decReqId =>
                   DecryptRequestErr(c, <<d, p>>, TRUE)' = NoError]_vars

C7_Witness ==
    /\ lastCall.op = "decryptRequest"
    /\ lastCall.err = InvalidProof
    /\ lastCall.reqId \in 1..requestCount
    /\ Len(zoneList) = 1

(***************************************************************************)
(* C8: the plaintext of the "main_zone" total is the sum of the demands of *)
(* the resolved requests, as an integer.                                   *)
(***************************************************************************)
C8_TotalIsSumOfDemands == MainTotal = mirrorTotal

(***************************************************************************)
(* C9: for each request id the accumulator merge made on its behalf        *)
(* happens at most once, and exactly once if the id is processed.          *)
(***************************************************************************)
C9_MergedOncePerRequest ==
    \A i \in DomainIds :
       /\ mergeCount[i] <= 1
       /\ decryptedRequests[i].processed => mergeCount[i] = 1

(***************************************************************************)
(* C10: getDecryptedRequest(id) is (0, 0, false) for every id that has     *)
(* been submitted and on whose behalf no resolution has succeeded,         *)
(* whatever decryption requests are outstanding.                           *)
(***************************************************************************)
C10_UnresolvedReadsZero ==
    \A i \in 1..requestCount :
       mergeCount[i] = 0 =>
          getDecryptedRequest(i) = <<Zero32, Zero32, FALSE>>

C10_Witness ==
    /\ requestCount = 2
    /\ mergeCount[1] = 1
    /\ decryptedRequests[1].processed
    /\ mergeCount[2] = 0
    /\ \E c \in Registered : requestToId[c] = 2

(***************************************************************************)
(* Helpers of the properties about zones and callers.                      *)
(***************************************************************************)
\* the names in the registry
ZoneSet == {zoneList[i] : i \in 1..Len(zoneList)}

\* no contribution has been merged yet
NothingMerged == \A i \in DomainIds : mergeCount[i] = 0

(***************************************************************************)
(* C11: getDecryptedRequest of an id that was never issued (0, or above    *)
(* requestCount) fails (NotFound).                                         *)
(***************************************************************************)
C11_UnissuedReadFails ==
    [][(/\ IsCall("getDecryptedRequest")
        /\ \/ lastCall'.reqId = 0
           \/ lastCall'.reqId > requestCount) =>
          lastCall'.err # NoError]_vars

(***************************************************************************)
(* C12: requestDecryption of a request whose processed flag is true fails  *)
(* with AlreadyProcessed: no oracle call, no correlation, no event, no     *)
(* other change.                                                           *)
(***************************************************************************)
C12_ProcessedRequestRejected ==
    [][(/\ IsCall("requestDecryption")
        /\ decryptedRequests[lastCall'.reqId].processed) =>
          /\ lastCall'.err = AlreadyProcessed
          /\ lastCall'.events = <<>>
          /\ NoMutation]_vars

C12_Witness ==
    /\ lastCall.op = "requestDecryption"
    /\ lastCall.err = AlreadyProcessed
    /\ lastCall.reqId \in 1..requestCount
    /\ oracleCounter < MaxCallbacks

(***************************************************************************)
(* C13: a registration for a callback id that is already in the            *)
(* correlation table fails (DuplicateCallback): an entry is never          *)
(* overwritten, and a registration succeeds only for an id not yet         *)
(* present, also when the oracle returns an id again.                      *)
(***************************************************************************)
C13_CorrelationAppendOnly ==
    [][/\ \A c \in CallbackIds :
             requestToId[c] # 0 => requestToId'[c] = requestToId[c]
       /\ (/\ \/ IsCall("requestDecryption")
              \/ IsCall("requestAllocationDecryption")
           /\ Succeeded) =>
             requestToId[lastCall'.decReqId] = 0]_vars

(***************************************************************************)
(* C14: the registry has no duplicate name, a name is in the registry iff  *)
(* its encrypted total is initialized, and a name once added stays.        *)
(***************************************************************************)
C14_RegistryLockStep ==
    /\ [](/\ \A i \in 1..Len(zoneList), j \in 1..Len(zoneList) :
                zoneList[i] = zoneList[j] => i = j
          /\ \A z \in Zones :
                z \in ZoneSet <=> isInitialized(encryptedAllocation[z]))
    /\ [][/\ Len(zoneList') >= Len(zoneList)
          /\ \A i \in 1..Len(zoneList) : zoneList'[i] = zoneList[i]]_vars

C14_Witness ==
    /\ zoneList = <<"main_zone">>
    /\ \E i \in DomainIds, j \in DomainIds :
          i # j /\ mergeCount[i] >= 1 /\ mergeCount[j] >= 1
    /\ ~isInitialized(encryptedAllocation["east_zone"])

(***************************************************************************)
(* C15: for every zone name z in the registry the hash of z resolves back  *)
(* to z; a hash that is the hash of no registered name (the domain id of a *)
(* request-flow callback, the 0 of an unregistered callback id) does not   *)
(* resolve, and decryptAllocation fails on it with ZoneNotFound.           *)
(***************************************************************************)
C15_ZoneReverseLookup ==
    /\ [](/\ \A z \in ZoneSet : getZoneFromHash(ZoneHashOf(z)) = z
          /\ \A h \in DomainIds :
                (\A z \in ZoneSet : ZoneHashOf(z) # h) =>
                   getZoneFromHash(h) = "")
    /\ [][(/\ IsCall("decryptAllocation")
           /\ \A z \in ZoneSet :
                 ZoneHashOf(z) # requestToId[lastCall'.decReqId]) =>
             /\ lastCall'.err = ZoneNotFound
             /\ NoMutation]_vars

C15_Witness ==
    /\ lastCall.op = "decryptAllocation"
    /\ lastCall.err = ZoneNotFound
    /\ requestToId[lastCall.decReqId] \in 1..requestCount
    /\ zoneList = <<"main_zone">>
    /\ \E c \in Registered :
          /\ requestToId[c] = ZoneHashOf("main_zone")
          /\ DecryptAllocationErr(c, <<Max32>>, TRUE) = NoError

(***************************************************************************)
(* C16: requestAllocationDecryption of a zone that never received a        *)
(* contribution fails with ZoneNotFound and changes nothing (no oracle     *)
(* call, no correlation); before the first resolution it fails for every   *)
(* zone name.                                                              *)
(***************************************************************************)
C16_UninitializedZoneRejected ==
    /\ [](NothingMerged =>
             \A z \in Zones : RequestAllocationDecryptionErr(z) = ZoneNotFound)
    /\ [][(/\ IsCall("requestAllocationDecryption")
           /\ ~isInitialized(encryptedAllocation[lastCall'.zone])) =>
             /\ lastCall'.err = ZoneNotFound
             /\ NoMutation]_vars

C16_Witness ==
    /\ lastCall.op = "requestAllocationDecryption"
    /\ lastCall.err = ZoneNotFound
    /\ lastCall.zone = "east_zone"
    /\ zoneList = <<"main_zone">>
    /\ oracleCounter < MaxCallbacks

(***************************************************************************)
(* C17: getEncryptedAllocation succeeds for an initialized zone and fails  *)
(* with ZoneNotFound for an uninitialized one.                             *)
(***************************************************************************)
C17_UninitializedZoneReadFails ==
    [][IsCall("getEncryptedAllocation") =>
          IF isInitialized(getEncryptedAllocation(lastCall'.zone))
          THEN lastCall'.err = NoError
          ELSE lastCall'.err = ZoneNotFound]_vars

(***************************************************************************)
(* C18: requestDecryption succeeds only when sent by the submitter of the  *)
(* request, decryptRequest and decryptAllocation only when sent by the     *)
(* oracle; a call by another account fails and changes nothing.            *)
(***************************************************************************)
C18_OnlyAuthorizedCallers ==
    [][/\ (IsCall("requestDecryption") /\ msgSender' # submitter[lastCall'.reqId])
             => (lastCall'.err # NoError /\ NoMutation)
       /\ (/\ \/ IsCall("decryptRequest")
              \/ IsCall("decryptAllocation")
           /\ msgSender' # Oracle)
             => (lastCall'.err # NoError /\ NoMutation)]_vars

(***************************************************************************)
(* C19: every successful submission, decryption request and resolution of  *)
(* either flow emits exactly one notification (the resolution of a request *)
(* one for itself and one for the accumulator update it makes), and a      *)
(* failed call emits none.                                                 *)
(***************************************************************************)
C19_OneNotificationPerOperation ==
    [][\A op \in {"submitEncryptedRequest", "requestDecryption",
                  "decryptRequest", "requestAllocationDecryption",
                  "decryptAllocation"} :
          IsCall(op) =>
             Len(lastCall'.events) =
                IF ~Succeeded THEN 0
                ELSE IF op = "decryptRequest" THEN 2
                ELSE 1]_vars

(***************************************************************************)
(* C20: a processed id was submitted and a requestDecryption for that id   *)
(* succeeded before it was resolved.                                       *)
(***************************************************************************)
C20_ProcessedAfterSubmitAndRequest ==
    \A i \in DomainIds :
       decryptedRequests[i].processed =>
          /\ i \in 1..requestCount
          /\ \E c \in Registered : requestToId[c] = i

(***************************************************************************)
(* C21: decryptRequest checks correlation, then the processed flag, then   *)
(* the proof: an unregistered callback id fails with "Invalid request" and *)
(* a processed target with "Already decrypted" whatever the proof is, and  *)
(* the proof failure is reported only for a registered callback id whose   *)
(* target is unprocessed.                                                  *)
(***************************************************************************)
C21_CheckOrder ==
    [][IsCall("decryptRequest") =>
          LET reqId == requestToId[lastCall'.decReqId]
          IN  /\ reqId = 0 => lastCall'.err = InvalidRequest
              /\ (reqId # 0 /\ decryptedRequests[reqId].processed) =>
                    lastCall'.err = AlreadyProcessed
              /\ lastCall'.err = InvalidProof =>
                    /\ reqId # 0
                    /\ ~decryptedRequests[reqId].processed
                    /\ ~lastCall'.proofOk]_vars

C21_Witness ==
    /\ lastCall.op = "decryptRequest"
    /\ lastCall.err = AlreadyProcessed
    /\ ~lastCall.proofOk
    /\ \E c \in CallbackIds \ Registered : requestToId[c] = 0

(***************************************************************************)
(* C22: both flows share requestToId.  A callback id registered by         *)
(* requestAllocationDecryption and delivered to decryptRequest with an     *)
(* accepted proof resolves the request whose id equals the zone hash, when *)
(* that request is issued and unprocessed, although no DecryptionRequested *)
(* was ever emitted for it: processed is set and the cleartext is merged.  *)
(* Conversely a callback id registered by requestDecryption for an id that *)
(* equals the hash of a registered zone is accepted by decryptAllocation.  *)
(***************************************************************************)
C22_FlowsShareCorrelation ==
    [][\A c \in CallbackIds :
          LET h == requestToId[c]
          IN  /\ (/\ IsCall("decryptRequest")
                  /\ lastCall'.decReqId = c
                  /\ lastCall'.proofOk
                  /\ h = ZoneHashOf("main_zone")
                  /\ h \notin requested
                  /\ h \in 1..requestCount
                  /\ ~decryptedRequests[h].processed) =>
                    /\ lastCall'.err \in {NoError, DecodeError}
                    /\ Succeeded =>
                          /\ decryptedRequests'[h].processed
                          /\ mergeCount'[h] = mergeCount[h] + 1
                          /\ h \notin requested'
              /\ (/\ IsCall("decryptAllocation")
                  /\ lastCall'.decReqId = c
                  /\ lastCall'.proofOk
                  /\ h = ZoneHashOf("main_zone")
                  /\ h \in requested
                  /\ "main_zone" \in ZoneSet) =>
                    /\ lastCall'.err \in {NoError, DecodeError}
                    /\ lastCall'.zone = "main_zone"]_vars

C22_Witness ==
    /\ lastCall.op = "decryptRequest"
    /\ lastCall.err = NoError
    /\ lastCall.reqId = ZoneHashOf("main_zone")
    /\ lastCall.reqId \in 1..requestCount
    /\ lastCall.reqId \notin requested
    /\ decryptedRequests[lastCall.reqId].processed

(***************************************************************************)
(* C23: decryptAllocation changes no state: whatever the callback id, the  *)
(* cleartexts and the proof, and whether it succeeds or reverts, ledger,   *)
(* correlation table, accumulators and registry are as before, so the      *)
(* decoded total is stored nowhere; it emits no event either.              *)
(***************************************************************************)
C23_ZoneResolutionWritesNothing ==
    [][IsCall("decryptAllocation") =>
          /\ NoMutation
          /\ lastCall'.events = <<>>]_vars

C23_Witness ==
    /\ lastCall.op = "decryptAllocation"
    /\ lastCall.err = NoError
    /\ lastCall.cleartexts = <<Max32>>
    /\ lastCall.zone = "main_zone"
    /\ MainTotal # Max32

C25_IdZeroNeverValid ==
    /\ [](/\ decryptedRequests[0] = NoResult
          /\ encryptedRequests[0] = NoRequest
          /\ mergeCount[0] = 0
          /\ \A n \in 1..Len(issued) : issued[n] # 0)
    /\ [][(IsCall("decryptRequest") /\ requestToId[lastCall'.decReqId] = 0) =>
             /\ lastCall'.err = InvalidRequest
             /\ NoMutation]_vars

C25_Witness ==
    /\ lastCall.op = "decryptRequest"
    /\ lastCall.err = InvalidRequest
    /\ lastCall.proofOk
    /\ lastCall.decReqId \in Registered
    /\ 0 \in requested
    /\ requestCount >= 1

(***************************************************************************)
(* C26: there is no timeout and no cancellation.  A result becomes         *)
(* processed only by a successful decryptRequest resolving that id; a      *)
(* request for which DecryptionRequested was emitted and that is           *)
(* unprocessed stays so, its correlation entry in place, through every     *)
(* other step (submissions, further requests, zone operations, failed      *)
(* callbacks).                                                             *)
(***************************************************************************)
C26_NoTimeoutNoCancellation ==
    [][\A i \in DomainIds :
          LET resolved == /\ IsCall("decryptRequest")
                          /\ Succeeded
                          /\ lastCall'.reqId = i
          IN  /\ (~decryptedRequests[i].processed
                    /\ decryptedRequests'[i].processed) => resolved
              /\ (/\ i \in requested
                  /\ ~decryptedRequests[i].processed
                  /\ ~resolved) =>
                    /\ ~decryptedRequests'[i].processed
                    /\ i \in requested'
                    /\ \A c \in Registered :
                          requestToId[c] = i => requestToId'[c] = i]_vars

C26_Witness ==
    \E i \in 1..requestCount :
       /\ i \in requested
       /\ ~decryptedRequests[i].processed
       /\ lastCall.op = "decryptRequest"
       /\ lastCall.reqId = i
       /\ lastCall.err = InvalidProof
       /\ \E j \in 1..requestCount : decryptedRequests[j].processed

(***************************************************************************)
(* C27: every processed id was issued by a submission (1 <= id <=          *)
(* requestCount), and requestDecryption registers a correlation only for   *)
(* an issued id.                                                           *)
(***************************************************************************)
C27_OnlyIssuedIdsAreRequested ==
    /\ [](\A i \in DomainIds :
             decryptedRequests[i].processed => i \in 1..requestCount)
    /\ [][(IsCall("requestDecryption") /\ Succeeded) =>
             lastCall'.reqId \in 1..requestCount]_vars

(***************************************************************************)
(* C28: no plaintext is stored for an unprocessed result: processed =      *)
(* false implies demand = 0 and priority = 0, for every id, and a          *)
(* processed result had a callback resolved for its id, so                 *)
(* getDecryptedRequest returns non-zero values only after a resolution.    *)
(***************************************************************************)
C28_NoPlaintextBeforeResolution ==
    \A i \in DomainIds :
       /\ ~decryptedRequests[i].processed =>
             /\ getDecryptedRequest(i)[1] = Zero32
             /\ getDecryptedRequest(i)[2] = Zero32
       /\ decryptedRequests[i].processed => mergeCount[i] >= 1

C28_Witness ==
    /\ \E i \in 1..requestCount :
          /\ ~decryptedRequests[i].processed
          /\ mergeCount[i] >= 1
    /\ \E j \in DomainIds :
          /\ decryptedRequests[j].processed
          /\ decryptedRequests[j].demand # Zero32

(***************************************************************************)
(* C29: with an oracle that issues distinct callback ids and eventually    *)
(* delivers each of them with an accepted proof, every submitted request   *)
(* for which DecryptionRequested was emitted is eventually processed.      *)
(***************************************************************************)
C29_RequestedEventuallyProcessed ==
    \A i \in 1..MaxRequests :
       (i \in 1..requestCount /\ i \in requested)
          ~> decryptedRequests[i].processed

(***************************************************************************)
(* C30: when every submitRequest call has completed, whatever the          *)
(* interleaving of the sessions was, "request_keys" holds the id of every  *)
(* stored request, so loadRequests lists every submitted request.          *)
(***************************************************************************)
C30_KeyIndexComplete ==
    (\A c \in Sessions : session[c].pc = "idle") =>
       \A id \in chainData.requests : id \in loadRequests

====
